---- MODULE Spec2Model ----
(***************************************************************************)
(* TLA+ model of three parts of chalk:                                     *)
(*   - the Zip / Zipper structural matcher    (chalk-rust/src/zip.rs)      *)
(*   - the coinductive goal classification    (chalk-solve/src/            *)
(*                                             coinductive_goal.rs)        *)
(*   - the default interner ChalkIr           (chalk-ir/src/interner.rs)   *)
(* Each part has its own specification (SpecZip, SpecCoinductive,          *)
(* SpecInterner for intern_* / *_data, SpecDebug for the debug_* hooks)    *)
(* over the one initial state; the actions of one leave the variables of   *)
(* the others alone.                                                       *)
(*                                                                         *)
(* A Rust value is a record whose field k names its static type; the       *)
(* trait dispatch `Zip::zip_with` is the CASE on k in ZipWith.  A call of  *)
(* zip_with yields an outcome [res, err, z]: res is "Ok", "Err" (the       *)
(* Result's Err, from bail! or from a callback) or "Panic" (panic! or a    *)
(* failed assert_eq!), err the diagnostic, z the zipper after the call.    *)
(***************************************************************************)
EXTENDS Integers, Sequences, FiniteSets, TLC

VARIABLES
    pc,      \* "idle", or "done" once a call has ended
    zipper,  \* the caller's zipper (the &mut Z of zip_with)
    op,      \* the impl the last call entered
    zin,     \* the zipper as it was when the last call began
    za, zb,  \* the two values of the last call
    zout,    \* the outcome of the last call
    cpc,     \* "idle", or "done" once a classification has ended
    db,      \* the RustIrDatabase: the flags of each trait's datum
    goal,    \* the value last classified
    coind,   \* what is_coinductive returned for it
    ipc,     \* "idle", "interned" after an intern_*, "read" after a *_data
    arcs,    \* the heap cells Arc::new has allocated, in order
    held,    \* the Arc handles the caller keeps, each with the data interned
    iop,     \* the leaf kind of the last interner call
    iin,     \* the data handed to the last intern_*
    ih,      \* the handle it returned (for a substitution, the Result)
    idata,   \* what the last *_data returned
    dpc,     \* "idle", or "done" once a debug hook has returned
    program, \* the current program in thread-local storage, or none
    dhook,   \* the debug hook last called
    dval,    \* the value it was to print
    sinkOk,  \* whether the formatter of the call takes what is written
    sink,    \* what has been written to the formatter of the call
    dout     \* what the hook returned

zipVars == <<pc, zipper, op, zin, za, zb, zout>>

coindVars == <<cpc, db, goal, coind>>

internVars == <<ipc, arcs, held, iop, iin, ih, idata>>

debugVars == <<dpc, program, dhook, dval, sinkOk, sink, dout>>

\* what the actions of each part leave alone
notZipVars == <<coindVars, internVars, debugVars>>
notCoindVars == <<zipVars, internVars, debugVars>>
notInternVars == <<zipVars, coindVars, debugVars>>
notDebugVars == <<zipVars, coindVars, internVars>>

vars == <<pc, zipper, op, zin, za, zb, zout, cpc, db, goal, coind,
          ipc, arcs, held, iop, iin, ih, idata, dpc, program, dhook, dval, sinkOk, sink, dout>>

----------------------------------------------------------------------------
(* Bounds of the model. *)

\* longest Vec handed to the Vec impl directly
MaxLen == 3

\* longest parameter list of a TraitRef / ApplicationTy
MaxParams == 1

\* most clauses of an Environment
MaxClauses == 1

\* deepest nesting of goals inside goals
MaxDepth == 2

\* most subgoals of an All goal
MaxAll == 2

\* universes are 0 .. MaxUniverse
MaxUniverse == 1

\* most Arc handles the caller keeps
MaxHeld == 2

\* most goals handed to intern_goals
MaxGoals == 2

\* most items handed to intern_substitution
MaxItems == 2

Min(x, y) == IF x <= y THEN x ELSE y

RECURSIVE SeqsUpTo(_, _)
SeqsUpTo(S, n) ==
    IF n = 0 THEN {<<>>}
    ELSE LET shorter == SeqsUpTo(S, n - 1)
         IN shorter \cup {Append(s, x) : s \in {t \in shorter : Len(t) = n - 1}, x \in S}

----------------------------------------------------------------------------
(* The values zip.rs is implemented for. *)

Names == {"a", "b"}

Ty(n) == [k |-> "Ty", id |-> n]
Lifetime(n) == [k |-> "Lifetime", id |-> n]
ItemId(n) == [k |-> "ItemId", id |-> n]
TypeName(n) == [k |-> "TypeName", id |-> n]
Identifier(n) == [k |-> "Identifier", id |-> n]

Tys == {Ty(n) : n \in Names}
Lifetimes == {Lifetime(n) : n \in Names}
ItemIds == {ItemId(n) : n \in Names}
TypeNames == {TypeName(n) : n \in Names}
Identifiers == {Identifier(n) : n \in Names}

\* ParameterKind<T, L>: the variant is tag, its payload val
ParameterKind(tag, v) == [k |-> "ParameterKind", tag |-> tag, val |-> v]
Parameters ==
    {ParameterKind("Ty", t) : t \in Tys} \cup {ParameterKind("Lifetime", l) : l \in Lifetimes}

Vec(s) == [k |-> "Vec", elems |-> s]
VecsOf(S, n) == {Vec(s) : s \in SeqsUpTo(S, n)}

Arc(v) == [k |-> "Arc", inner |-> v]
Ref(v) == [k |-> "Ref", inner |-> v]
Pair(x, y) == [k |-> "Pair", fst |-> x, snd |-> y]

TraitRef(id, ps) == [k |-> "TraitRef", trait_id |-> id, parameters |-> ps]
TraitRefs == {TraitRef(id, ps) : id \in ItemIds, ps \in VecsOf(Parameters, MaxParams)}

ApplicationTy(n, ps) == [k |-> "ApplicationTy", name |-> n, parameters |-> ps]
ApplicationTys ==
    {ApplicationTy(n, ps) : n \in TypeNames, ps \in VecsOf(Parameters, MaxParams)}

ProjectionTy(tr, n) == [k |-> "ProjectionTy", trait_ref |-> tr, name |-> n]
\* the trait reference of a projection has its self type only or nothing:
\* its parameter list is one of the lists over types
ProjectionTys ==
    {ProjectionTy(TraitRef(id, ps), n) :
        id \in ItemIds, ps \in VecsOf({ParameterKind("Ty", t) : t \in Tys}, MaxParams),
        n \in Identifiers}

Normalize(p, t) == [k |-> "Normalize", projection |-> p, ty |-> t]
Normalizes == {Normalize(p, t) : p \in ProjectionTys, t \in Tys}

WhereClause(tag, v) == [k |-> "WhereClause", tag |-> tag, val |-> v]
WhereClauses ==
    {WhereClause("Implemented", tr) : tr \in TraitRefs}
        \cup {WhereClause("Normalize", n) : n \in Normalizes}

WhereClauseGoal(tag, v) == [k |-> "WhereClauseGoal", tag |-> tag, val |-> v]
WhereClauseGoals ==
    {WhereClauseGoal("Implemented", tr) : tr \in TraitRefs}
        \cup {WhereClauseGoal("Normalize", n) : n \in Normalizes}

\* the clauses environments are built from
EnvClauses ==
    {WhereClause("Implemented", TraitRef(ItemId("a"), Vec(<<ParameterKind("Ty", t)>>))) : t \in Tys}
        \cup {WhereClause("Normalize",
                Normalize(ProjectionTy(TraitRef(ItemId("a"), Vec(<<>>)), Identifier("a")), Ty("a")))}

Environment(u, cs) == [k |-> "Environment", universe |-> u, clauses |-> cs]
Universes == 0 .. MaxUniverse
Environments == {Environment(u, cs) : u \in Universes, cs \in VecsOf(EnvClauses, MaxClauses)}

InEnvironment(e, g) == [k |-> "InEnvironment", environment |-> e, goal |-> g]
\* InEnvironment<T> at T = Ty
InEnvironments == {InEnvironment(e, g) : e \in Environments, g \in {Ty("a"), Ty("b")}}

\* the elements of the Vecs handed to the Vec impl directly: two types and a
\* lifetime, so that two elements are equal, differ in a leaf, or differ in kind
VecElems ==
    {ParameterKind("Ty", t) : t \in Tys} \cup {ParameterKind("Lifetime", Lifetime("a"))}

----------------------------------------------------------------------------
(* The Zipper: its two callbacks answer by a relation on the leaves (equal  *)
(* leaves only, any two leaves, no two leaves), and it records every call   *)
(* in calls, its mutable state.                                             *)

Modes == {"eq", "any", "none"}
Zippers == [tyRel : Modes, ltRel : Modes, calls : {<<>>}]

Related(mode, a, b) ==
    CASE mode = "eq" -> a = b
      [] mode = "any" -> TRUE
      [] mode = "none" -> FALSE

NoErr == [kind |-> "none"]
Ok(z) == [res |-> "Ok", err |-> NoErr, z |-> z]
Err(z, e) == [res |-> "Err", err |-> e, z |-> z]
Panic(z, e) == [res |-> "Panic", err |-> e, z |-> z]

Call(z, a, b) == [z EXCEPT !.calls = Append(@, <<a, b>>)]

zip_tys(z, a, b) ==
    IF Related(z.tyRel, a, b)
    THEN Ok(Call(z, a, b))
    ELSE Err(Call(z, a, b), [kind |-> "leaf", a |-> a, b |-> b])

zip_lifetimes(z, a, b) ==
    IF Related(z.ltRel, a, b)
    THEN Ok(Call(z, a, b))
    ELSE Err(Call(z, a, b), [kind |-> "leaf", a |-> a, b |-> b])

----------------------------------------------------------------------------
(* impl Zip for ...: one operator per impl, ZipWith the trait dispatch.     *)

RECURSIVE ZipWith(_, _, _)
RECURSIVE ZipVecLoop(_, _, _, _)

ZipRef(z, a, b) == ZipWith(z, a.inner, b.inner)

\* mutant: the loop goes on after an element fails and returns the failure of
\* the last element that failed
RECURSIVE ZipVecLoopKeepsGoing(_, _, _, _)
ZipVecLoopKeepsGoing(z, a, b, i) ==
    IF i > Min(Len(a.elems), Len(b.elems))
    THEN Ok(z)
    ELSE LET r == ZipWith(z, a.elems[i], b.elems[i])
             rest == ZipVecLoopKeepsGoing(r.z, a, b, i + 1)
         IN IF r.res # "Ok" /\ rest.res = "Ok" THEN [r EXCEPT !.z = rest.z] ELSE rest

\* for (a_elem, b_elem) in a.iter().zip(b) { Zip::zip_with(..)?; } Ok(())
ZipVecLoop(z, a, b, i) ==
    IF i > Min(Len(a.elems), Len(b.elems))
    THEN Ok(z)
    ELSE LET r == ZipWith(z, a.elems[i], b.elems[i])
         IN IF r.res # "Ok" THEN r ELSE ZipVecLoop(r.z, a, b, i + 1)

\* mutant: the lengths are compared after the elements are zipped
ZipVecLengthLast(z, a, b) ==
    LET r == ZipVecLoop(z, a, b, 1)
    IN IF r.res # "Ok" THEN r
       ELSE IF Len(a.elems) # Len(b.elems)
       THEN Err(r.z, [kind |-> "arity", la |-> Len(a.elems), lb |-> Len(b.elems)])
       ELSE r

ZipVec(z, a, b) ==
    IF Len(a.elems) # Len(b.elems)
    THEN Err(z, [kind |-> "arity", la |-> Len(a.elems), lb |-> Len(b.elems)])
    ELSE ZipVecLoop(z, a, b, 1)

ZipArc(z, a, b) == ZipWith(z, a.inner, b.inner)

ZipPair(z, a, b) ==
    LET r == ZipWith(z, a.fst, b.fst)
    IN IF r.res # "Ok" THEN r ELSE ZipWith(r.z, a.snd, b.snd)

\* mutant: mixed kinds bail! instead of panic!
ZipParameterKindBails(z, a, b) ==
    CASE a.tag = "Ty" /\ b.tag = "Ty" -> ZipWith(z, a.val, b.val)
      [] a.tag = "Lifetime" /\ b.tag = "Lifetime" -> ZipWith(z, a.val, b.val)
      [] OTHER -> Err(z, [kind |-> "shape", a |-> a, b |-> b])

ZipParameterKind(z, a, b) ==
    CASE a.tag = "Ty" /\ b.tag = "Ty" -> ZipWith(z, a.val, b.val)
      [] a.tag = "Lifetime" /\ b.tag = "Lifetime" -> ZipWith(z, a.val, b.val)
      [] OTHER -> Panic(z, [kind |-> "mixed_kind", a |-> a, b |-> b])

ZipTy(z, a, b) == zip_tys(z, a, b)

ZipLifetime(z, a, b) == zip_lifetimes(z, a, b)

ZipItemId(z, a, b) ==
    IF a # b THEN Err(z, [kind |-> "token", a |-> a, b |-> b]) ELSE Ok(z)

\* mutant: the comparison is inverted
ZipTypeNameInverted(z, a, b) ==
    IF a = b THEN Err(z, [kind |-> "token", a |-> a, b |-> b]) ELSE Ok(z)

ZipTypeName(z, a, b) ==
    IF a # b THEN Err(z, [kind |-> "token", a |-> a, b |-> b]) ELSE Ok(z)

ZipIdentifier(z, a, b) ==
    IF a # b THEN Err(z, [kind |-> "token", a |-> a, b |-> b]) ELSE Ok(z)

\* mutant: the trait ids are not zipped
ZipTraitRefSkipsId(z, a, b) == ZipWith(z, a.parameters, b.parameters)

ZipTraitRef(z, a, b) ==
    LET r == ZipWith(z, a.trait_id, b.trait_id)
    IN IF r.res # "Ok" THEN r ELSE ZipWith(r.z, a.parameters, b.parameters)

ZipInEnvironment(z, a, b) ==
    LET r == ZipWith(z, a.environment, b.environment)
    IN IF r.res # "Ok" THEN r ELSE ZipWith(r.z, a.goal, b.goal)

ZipApplicationTy(z, a, b) ==
    LET r == ZipWith(z, a.name, b.name)
    IN IF r.res # "Ok" THEN r ELSE ZipWith(r.z, a.parameters, b.parameters)

ZipProjectionTy(z, a, b) ==
    LET r == ZipWith(z, a.trait_ref, b.trait_ref)
    IN IF r.res # "Ok" THEN r ELSE ZipWith(r.z, a.name, b.name)

ZipNormalize(z, a, b) ==
    LET r == ZipWith(z, a.projection, b.projection)
    IN IF r.res # "Ok" THEN r ELSE ZipWith(r.z, a.ty, b.ty)

\* mutant: the two assert_eq! are missing
ZipEnvironmentUnasserted(z, a, b) == ZipWith(z, a.clauses, b.clauses)

ZipEnvironment(z, a, b) ==
    IF a.universe # b.universe
    THEN Panic(z, [kind |-> "assert_universe", la |-> a.universe, lb |-> b.universe])
    ELSE IF Len(a.clauses.elems) # Len(b.clauses.elems)
    THEN Panic(z, [kind |-> "assert_clauses",
                   la |-> Len(a.clauses.elems), lb |-> Len(b.clauses.elems)])
    ELSE ZipWith(z, a.clauses, b.clauses)

\* mutant: the arm of two Normalize is missing, and they fall to the bail!
ZipWhereClauseNoNormalizeArm(z, a, b) ==
    CASE a.tag = "Implemented" /\ b.tag = "Implemented" -> ZipWith(z, a.val, b.val)
      [] OTHER -> Err(z, [kind |-> "shape", a |-> a, b |-> b])

ZipWhereClause(z, a, b) ==
    CASE a.tag = "Implemented" /\ b.tag = "Implemented" -> ZipWith(z, a.val, b.val)
      [] a.tag = "Normalize" /\ b.tag = "Normalize" -> ZipWith(z, a.val, b.val)
      [] OTHER -> Err(z, [kind |-> "shape", a |-> a, b |-> b])

\* mutant: goals of different tags panic
ZipWhereClauseGoalPanics(z, a, b) ==
    CASE a.tag = "Implemented" /\ b.tag = "Implemented" -> ZipWith(z, a.val, b.val)
      [] a.tag = "Normalize" /\ b.tag = "Normalize" -> ZipWith(z, a.val, b.val)
      [] OTHER -> Panic(z, [kind |-> "shape", a |-> a, b |-> b])

ZipWhereClauseGoal(z, a, b) ==
    CASE a.tag = "Implemented" /\ b.tag = "Implemented" -> ZipWith(z, a.val, b.val)
      [] a.tag = "Normalize" /\ b.tag = "Normalize" -> ZipWith(z, a.val, b.val)
      [] OTHER -> Err(z, [kind |-> "shape", a |-> a, b |-> b])

ZipWith(z, a, b) ==
    CASE a.k = "Ref" -> ZipRef(z, a, b)
      [] a.k = "Vec" -> ZipVec(z, a, b)
      [] a.k = "Arc" -> ZipArc(z, a, b)
      [] a.k = "Pair" -> ZipPair(z, a, b)
      [] a.k = "ParameterKind" -> ZipParameterKind(z, a, b)
      [] a.k = "Ty" -> ZipTy(z, a, b)
      [] a.k = "Lifetime" -> ZipLifetime(z, a, b)
      [] a.k = "ItemId" -> ZipItemId(z, a, b)
      [] a.k = "TypeName" -> ZipTypeName(z, a, b)
      [] a.k = "Identifier" -> ZipIdentifier(z, a, b)
      [] a.k = "TraitRef" -> ZipTraitRef(z, a, b)
      [] a.k = "InEnvironment" -> ZipInEnvironment(z, a, b)
      [] a.k = "ApplicationTy" -> ZipApplicationTy(z, a, b)
      [] a.k = "ProjectionTy" -> ZipProjectionTy(z, a, b)
      [] a.k = "Normalize" -> ZipNormalize(z, a, b)
      [] a.k = "Environment" -> ZipEnvironment(z, a, b)
      [] a.k = "WhereClause" -> ZipWhereClause(z, a, b)
      [] a.k = "WhereClauseGoal" -> ZipWhereClauseGoal(z, a, b)

----------------------------------------------------------------------------
(* The caller of zip.rs: it holds a zipper, calls zip_with on two values of *)
(* one static type (pc goes from "idle" to "done"), and then drops the      *)
(* outcome and starts over with a zipper whose record of calls is empty.    *)

None == [k |-> "None"]
NoOutcome == [res |-> "None"]

TraitIds == {"T1", "T2"}
TraitFlags == [auto : BOOLEAN, coinductive : BOOLEAN]

\* the classifier at rest, before any trait is flagged
CoindAtRest ==
    /\ cpc = "idle"
    /\ db = [t \in TraitIds |-> [auto |-> FALSE, coinductive |-> FALSE]]
    /\ goal = None
    /\ coind = FALSE

ZipAtRest ==
    /\ pc = "idle"
    /\ zipper = [tyRel |-> "eq", ltRel |-> "eq", calls |-> <<>>]
    /\ op = "none"
    /\ zin = None
    /\ za = None
    /\ zb = None
    /\ zout = NoOutcome

\* no interner call made, nothing allocated
InternAtRest ==
    /\ ipc = "idle"
    /\ arcs = <<>>
    /\ held = <<>>
    /\ iop = "none"
    /\ iin = None
    /\ ih = None
    /\ idata = None

\* no current program set, no hook called
DebugAtRest ==
    /\ dpc = "idle"
    /\ program = "none"
    /\ dhook = "none"
    /\ dval = None
    /\ sinkOk = TRUE
    /\ sink = <<>>
    /\ dout = None

Init == ZipAtRest /\ CoindAtRest /\ InternAtRest /\ DebugAtRest

NewZipper ==
    /\ pc = "idle"
    /\ \E z \in Zippers : zipper' = z
    /\ UNCHANGED <<pc, op, zin, za, zb, zout>>
    /\ UNCHANGED notZipVars

\* Zip::zip_with(&mut zipper, &a, &b)
Invoke(o, a, b) ==
    /\ pc' = "done"
    /\ op' = o
    /\ zin' = zipper
    /\ za' = a
    /\ zb' = b
    /\ zout' = ZipWith(zipper, a, b)
    /\ zipper' = zout'.z
    /\ UNCHANGED notZipVars

CallRef ==
    /\ pc = "idle"
    /\ \E a, b \in {Ref(x) : x \in Parameters} : Invoke("Ref", a, b)
CallVec ==
    /\ pc = "idle"
    /\ \E a, b \in VecsOf(VecElems, MaxLen) : Invoke("Vec", a, b)
CallArc ==
    /\ pc = "idle"
    /\ \E a, b \in {Arc(x) : x \in TraitRefs} : Invoke("Arc", a, b)
CallPair ==
    /\ pc = "idle"
    /\ \E a, b \in {Pair(x, y) : x \in Parameters, y \in Parameters} : Invoke("Pair", a, b)
CallParameterKind ==
    /\ pc = "idle"
    /\ \E a, b \in Parameters : Invoke("ParameterKind", a, b)
CallTy ==
    /\ pc = "idle"
    /\ \E a, b \in Tys : Invoke("Ty", a, b)
CallLifetime ==
    /\ pc = "idle"
    /\ \E a, b \in Lifetimes : Invoke("Lifetime", a, b)
CallItemId ==
    /\ pc = "idle"
    /\ \E a, b \in ItemIds : Invoke("ItemId", a, b)
CallTypeName ==
    /\ pc = "idle"
    /\ \E a, b \in TypeNames : Invoke("TypeName", a, b)
CallIdentifier ==
    /\ pc = "idle"
    /\ \E a, b \in Identifiers : Invoke("Identifier", a, b)
CallTraitRef ==
    /\ pc = "idle"
    /\ \E a, b \in TraitRefs : Invoke("TraitRef", a, b)
CallInEnvironment ==
    /\ pc = "idle"
    /\ \E a, b \in InEnvironments : Invoke("InEnvironment", a, b)
CallApplicationTy ==
    /\ pc = "idle"
    /\ \E a, b \in ApplicationTys : Invoke("ApplicationTy", a, b)
CallProjectionTy ==
    /\ pc = "idle"
    /\ \E a, b \in ProjectionTys : Invoke("ProjectionTy", a, b)
CallNormalize ==
    /\ pc = "idle"
    /\ \E a, b \in Normalizes : Invoke("Normalize", a, b)
CallEnvironment ==
    /\ pc = "idle"
    /\ \E a, b \in Environments : Invoke("Environment", a, b)
CallWhereClause ==
    /\ pc = "idle"
    /\ \E a, b \in WhereClauses : Invoke("WhereClause", a, b)
CallWhereClauseGoal ==
    /\ pc = "idle"
    /\ \E a, b \in WhereClauseGoals : Invoke("WhereClauseGoal", a, b)

Drop ==
    /\ pc = "done"
    /\ pc' = "idle"
    /\ zipper' = [zipper EXCEPT !.calls = <<>>]
    /\ op' = "none"
    /\ zin' = None
    /\ za' = None
    /\ zb' = None
    /\ zout' = NoOutcome
    /\ UNCHANGED notZipVars

NextZip ==
    \/ NewZipper
    \/ CallRef
    \/ CallVec
    \/ CallArc
    \/ CallPair
    \/ CallParameterKind
    \/ CallTy
    \/ CallLifetime
    \/ CallItemId
    \/ CallTypeName
    \/ CallIdentifier
    \/ CallTraitRef
    \/ CallInEnvironment
    \/ CallApplicationTy
    \/ CallProjectionTy
    \/ CallNormalize
    \/ CallEnvironment
    \/ CallWhereClause
    \/ CallWhereClauseGoal
    \/ Drop

SpecZip == Init /\ [][NextZip]_vars

----------------------------------------------------------------------------
(* Properties of zip.rs.                                                    *)

Done(o) == pc = "done" /\ op = o

\* the callbacks the last call invoked, in order
CallsMade == zout.z.calls

NoCallback == zout.z = zin

\* C1: zipping two Vecs of different lengths returns the arity-mismatch Err
\* carrying both lengths, whatever the elements are, and before any element
\* is visited: no callback is invoked and no panic is raised.
C1_VecArityMismatch ==
    (Done("Vec") /\ Len(za.elems) # Len(zb.elems)) =>
        /\ zout.res = "Err"
        /\ zout.err.kind = "arity"
        /\ zout.err.la = Len(za.elems)
        /\ zout.err.lb = Len(zb.elems)
        /\ NoCallback

\* lengths 2 and 3, and first elements of mixed kind
C1_Witness ==
    /\ Done("Vec")
    /\ Len(za.elems) = 2
    /\ Len(zb.elems) = 3
    /\ za.elems[1].tag # zb.elems[1].tag
    /\ zout.res = "Err"
    /\ zout.err.kind = "arity"
    /\ zout.err.la = 2
    /\ zout.err.lb = 3

\* C2: a where-clause (or where-clause-goal) Implemented against Normalize,
\* in either order, returns Err without a callback; two Implemented succeed
\* exactly when the trait ids are equal, the parameter lists are equally long
\* and every pair of parameters at one position zips successfully.
C2_WhereClauseTags ==
    (Done("WhereClause") \/ Done("WhereClauseGoal")) =>
        /\ za.tag # zb.tag => (zout.res = "Err" /\ NoCallback)
        /\ (za.tag = "Implemented" /\ zb.tag = "Implemented") =>
              LET pa == za.val.parameters.elems
                  pb == zb.val.parameters.elems
              IN zout.res = "Ok" <=>
                    /\ za.val.trait_id = zb.val.trait_id
                    /\ Len(pa) = Len(pb)
                    /\ \A i \in 1 .. Len(pa) : ZipWith(zin, pa[i], pb[i]).res = "Ok"

\* Implemented against Normalize
C2_WitnessMismatch ==
    /\ Done("WhereClause")
    /\ za.tag = "Implemented"
    /\ zb.tag = "Normalize"
    /\ zout.res = "Err"

\* two Implemented with equal trait ids and one unequal pair of parameters
\* that the zipper accepts
C2_Witness ==
    /\ Done("WhereClauseGoal")
    /\ za.tag = "Implemented"
    /\ zb.tag = "Implemented"
    /\ Len(za.val.parameters.elems) = 1
    /\ Len(zb.val.parameters.elems) = 1
    /\ za.val.parameters # zb.val.parameters
    /\ zout.res = "Ok"

\* C4: a parameter-kind holding a type against one holding a lifetime, in
\* either order, panics: the call returns neither Ok nor Err, and no callback
\* is invoked.
C4_MixedKindPanics ==
    (Done("ParameterKind") /\ za.tag # zb.tag) =>
        /\ zout.res = "Panic"
        /\ zout.err.kind = "mixed_kind"
        /\ NoCallback

C4_Witness ==
    /\ Done("ParameterKind")
    /\ za.tag = "Lifetime"
    /\ zb.tag = "Ty"
    /\ zout.res = "Panic"

TaggedUnions == {"ParameterKind", "WhereClause", "WhereClauseGoal"}

\* C5 as stated: for every tagged union, parameter-kind included, different
\* tags give a shape-mismatch Err carrying both tags, and equal tags give the
\* outcome of zipping the payloads.
C5_Original ==
    (pc = "done" /\ op \in TaggedUnions) =>
        /\ za.tag # zb.tag =>
              /\ zout.res = "Err"
              /\ zout.err.kind = "shape"
              /\ zout.err.a.tag = za.tag
              /\ zout.err.b.tag = zb.tag
        /\ za.tag = zb.tag => zout = ZipWith(zin, za.val, zb.val)

\* C5 (amended): where-clauses and where-clause-goals of different tags give
\* a shape-mismatch Err carrying both tags; parameter-kinds of different tags
\* panic and return no diagnostic; for all three, equal tags give exactly the
\* outcome of zipping the payloads.
C5_TaggedUnions ==
    (pc = "done" /\ op \in TaggedUnions) =>
        /\ (za.tag # zb.tag /\ op # "ParameterKind") =>
              /\ zout.res = "Err"
              /\ zout.err.kind = "shape"
              /\ zout.err.a.tag = za.tag
              /\ zout.err.b.tag = zb.tag
              /\ NoCallback
        /\ (za.tag # zb.tag /\ op = "ParameterKind") => zout.res = "Panic"
        /\ za.tag = zb.tag => zout = ZipWith(zin, za.val, zb.val)

\* a where-clause-goal Normalize against Implemented
C5_Witness ==
    /\ Done("WhereClauseGoal")
    /\ za.tag = "Normalize"
    /\ zb.tag = "Implemented"
    /\ zout.res = "Err"
    /\ zout.err.kind = "shape"

\* C6: zipping two environments of different universes or different numbers
\* of clauses panics and never returns Err (so never the arity-mismatch Err);
\* when both agree the outcome is that of zipping the clauses one by one.
C6_EnvironmentPrecondition ==
    /\ Done("Environment") =>
          LET ca == za.clauses.elems
              cb == zb.clauses.elems
          IN IF za.universe # zb.universe \/ Len(ca) # Len(cb)
             THEN zout.res = "Panic" /\ NoCallback
             ELSE /\ zout = ZipVecLoop(zin, za.clauses, zb.clauses, 1)
                  /\ ~(zout.res = "Err" /\ zout.err.kind = "arity")
    /\ Done("InEnvironment") =>
          LET ea == za.environment
              eb == zb.environment
          IN (ea.universe # eb.universe \/ Len(ea.clauses.elems) # Len(eb.clauses.elems)) =>
                (zout.res = "Panic" /\ NoCallback)

\* one universe, one clause on one side and none on the other
C6_Witness ==
    /\ Done("Environment")
    /\ za.universe = zb.universe
    /\ Len(za.clauses.elems) = 1
    /\ Len(zb.clauses.elems) = 0
    /\ zout.res = "Panic"

\* universes and clause counts agree and a clause pair fails
C6_WitnessAgree ==
    /\ Done("Environment")
    /\ za.universe = zb.universe
    /\ Len(za.clauses.elems) = 1
    /\ Len(zb.clauses.elems) = 1
    /\ zout.res = "Err"

Tokens == {"ItemId", "TypeName", "Identifier"}

\* C7: item ids, type names and identifiers are zipped by equality alone: Ok
\* exactly when the two are equal, the token-mismatch Err otherwise, with no
\* callback and the zipper left as it was.
C7_TokensByEquality ==
    (pc = "done" /\ op \in Tokens) =>
        /\ zout.res = "Ok" <=> za = zb
        /\ za # zb => (zout.res = "Err" /\ zout.err.kind = "token")
        /\ NoCallback
        /\ zipper = zin

\* unequal identifiers under a zipper that accepts any two leaves
C7_Witness ==
    /\ Done("Identifier")
    /\ za # zb
    /\ zin.tyRel = "any"
    /\ zout.res = "Err"

\* C8: zipping a value against itself, with callbacks that succeed on equal
\* leaves, returns Ok.
C8_Reflexive ==
    (pc = "done" /\ za = zb /\ zin.tyRel \in {"eq", "any"} /\ zin.ltRel \in {"eq", "any"}) =>
        zout.res = "Ok"

\* an environment with a clause, against itself
C8_Witness ==
    /\ Done("InEnvironment")
    /\ za = zb
    /\ Len(za.environment.clauses.elems) = 1
    /\ zin.tyRel = "eq"
    /\ zin.ltRel = "eq"
    /\ zout.res = "Ok"
    /\ Len(CallsMade) = 2

----------------------------------------------------------------------------
(* The order of a traversal, stated apart from zip_with: Checks(a, b) lists *)
(* every check of the corresponding positions of a and b, depth first and   *)
(* left to right, each check written as the diagnostic it raises when it    *)
(* fails; positions below a failed structural check correspond to nothing.  *)

RECURSIVE Checks(_, _)
RECURSIVE ChecksOfElems(_, _, _)

ChecksOfElems(sa, sb, i) ==
    IF i > Len(sa) THEN <<>> ELSE Checks(sa[i], sb[i]) \o ChecksOfElems(sa, sb, i + 1)

Checks(a, b) ==
    CASE a.k \in {"Ref", "Arc"} -> Checks(a.inner, b.inner)
      [] a.k = "Vec" ->
            <<[kind |-> "arity", la |-> Len(a.elems), lb |-> Len(b.elems)]>>
                \o (IF Len(a.elems) = Len(b.elems) THEN ChecksOfElems(a.elems, b.elems, 1) ELSE <<>>)
      [] a.k = "Pair" -> Checks(a.fst, b.fst) \o Checks(a.snd, b.snd)
      [] a.k = "ParameterKind" ->
            <<[kind |-> "mixed_kind", a |-> a, b |-> b]>>
                \o (IF a.tag = b.tag THEN Checks(a.val, b.val) ELSE <<>>)
      [] a.k \in {"Ty", "Lifetime"} -> <<[kind |-> "leaf", a |-> a, b |-> b]>>
      [] a.k \in {"ItemId", "TypeName", "Identifier"} -> <<[kind |-> "token", a |-> a, b |-> b]>>
      [] a.k = "TraitRef" -> Checks(a.trait_id, b.trait_id) \o Checks(a.parameters, b.parameters)
      [] a.k = "InEnvironment" -> Checks(a.environment, b.environment) \o Checks(a.goal, b.goal)
      [] a.k = "ApplicationTy" -> Checks(a.name, b.name) \o Checks(a.parameters, b.parameters)
      [] a.k = "ProjectionTy" -> Checks(a.trait_ref, b.trait_ref) \o Checks(a.name, b.name)
      [] a.k = "Normalize" -> Checks(a.projection, b.projection) \o Checks(a.ty, b.ty)
      [] a.k = "Environment" ->
            <<[kind |-> "assert_universe", la |-> a.universe, lb |-> b.universe],
              [kind |-> "assert_clauses", la |-> Len(a.clauses.elems), lb |-> Len(b.clauses.elems)]>>
                \o Checks(a.clauses, b.clauses)
      [] a.k \in {"WhereClause", "WhereClauseGoal"} ->
            <<[kind |-> "shape", a |-> a, b |-> b]>>
                \o (IF a.tag = b.tag THEN Checks(a.val, b.val) ELSE <<>>)

\* what one check comes to under zipper z
Verdict(z, e) ==
    CASE e.kind = "leaf" ->
            IF Related(IF e.a.k = "Ty" THEN z.tyRel ELSE z.ltRel, e.a, e.b) THEN "Ok" ELSE "Err"
      [] e.kind = "token" -> IF e.a = e.b THEN "Ok" ELSE "Err"
      [] e.kind = "shape" -> IF e.a.tag = e.b.tag THEN "Ok" ELSE "Err"
      [] e.kind = "arity" -> IF e.la = e.lb THEN "Ok" ELSE "Err"
      [] e.kind = "mixed_kind" -> IF e.a.tag = e.b.tag THEN "Ok" ELSE "Panic"
      [] e.kind \in {"assert_universe", "assert_clauses"} -> IF e.la = e.lb THEN "Ok" ELSE "Panic"

IsLeafCheck(e) == e.kind = "leaf"

\* the callbacks a sequence of checks invokes
LeafCalls(es) ==
    LET ls == SelectSeq(es, IsLeafCheck)
    IN [i \in 1 .. Len(ls) |-> <<ls[i].a, ls[i].b>>]

FirstFailure(z, es) ==
    LET bad == {i \in 1 .. Len(es) : Verdict(z, es[i]) # "Ok"}
    IN IF bad = {} THEN 0 ELSE CHOOSE i \in bad : \A j \in bad : i <= j

\* C3: the checks and callbacks of a traversal happen depth first and left to
\* right; the first check that fails ends the call with exactly its
\* diagnostic, the callbacks invoked are those up to it and no later one, and
\* a call in which no check fails returns Ok having invoked every callback.
C3_FirstFailureAborts ==
    pc = "done" =>
        LET es == Checks(za, zb)
            f == FirstFailure(zin, es)
        IN IF f = 0
           THEN /\ zout.res = "Ok"
                /\ CallsMade = LeafCalls(es)
           ELSE /\ zout.res = Verdict(zin, es[f])
                /\ zout.err = es[f]
                /\ CallsMade = LeafCalls(SubSeq(es, 1, f))

\* the first pair of a Vec fails in the callback, a later pair is of mixed
\* kind: the call returns the callback's Err after that single callback
C3_Witness ==
    /\ Done("Vec")
    /\ Len(za.elems) = 3
    /\ Len(zb.elems) = 3
    /\ za.elems[1].tag = zb.elems[1].tag
    /\ za.elems[1] # zb.elems[1]
    /\ za.elems[2].tag # zb.elems[2].tag
    /\ zout.res = "Err"
    /\ zout.err.kind = "leaf"
    /\ Len(CallsMade) = 1

\* a pair whose first field succeeds and whose second fails: two callbacks
C3_WitnessPair ==
    /\ Done("Pair")
    /\ zout.res = "Err"
    /\ Len(CallsMade) = 2
    /\ zout.err.a = za.snd.val

----------------------------------------------------------------------------
(* Goals, as coinductive_goal.rs matches on them.  g names the variant of   *)
(* GoalData; a domain goal names its DomainGoal variant in dg and, below    *)
(* that, its WhereClause variant in wc or its WellFormed variant in wf.     *)

GoalTraitRef(t, ps) == [trait_id |-> t, parameters |-> ps]
GoalTraitRefs == {GoalTraitRef(t, ps) : t \in TraitIds, ps \in {<<>>, <<"X">>}}

Holds(wc, tr) == [g |-> "DomainGoal", dg |-> "Holds", wc |-> wc, tr |-> tr]
WellFormedGoal(wf, tr) == [g |-> "DomainGoal", dg |-> "WellFormed", wf |-> wf, tr |-> tr]
FromEnvGoal(tr) == [g |-> "DomainGoal", dg |-> "FromEnv", tr |-> tr]
Quantified(q, n, body) == [g |-> "Quantified", kind |-> q, binders |-> n, body |-> body]
Implies(hyp, concl) == [g |-> "Implies", hypotheses |-> hyp, goal |-> concl]
All(gs) == [g |-> "All", goals |-> gs]
Not(sub) == [g |-> "Not", goal |-> sub]
EqGoal == [g |-> "EqGoal"]
CannotProve == [g |-> "CannotProve"]
SubtypeGoal == [g |-> "SubtypeGoal"]

ImplementedGoals == {Holds("Implemented", tr) : tr \in GoalTraitRefs}

\* goals that hold no goal
LeafGoals ==
    ImplementedGoals
        \cup {Holds(wc, GoalTraitRef("T1", <<>>)) :
                wc \in {"AliasEq", "LifetimeOutlives", "TypeOutlives"}}
        \cup {WellFormedGoal("Trait", GoalTraitRef(t, <<>>)) : t \in TraitIds}
        \cup {WellFormedGoal("Ty", GoalTraitRef("T1", <<>>))}
        \cup {FromEnvGoal(GoalTraitRef(t, <<>>)) : t \in TraitIds}
        \cup {EqGoal, CannotProve, SubtypeGoal}

\* the subgoals All goals are made of: an auto-or-not trait goal of each
\* trait, and a goal that is never coinductive
AllSubgoals ==
    {Holds("Implemented", GoalTraitRef(t, <<>>)) : t \in TraitIds} \cup {EqGoal}

QuantifierShapes == {<<"ForAll", 1>>, <<"Exists", 1>>, <<"ForAll", 2>>}
Hypotheses == {<<>>, <<Holds("Implemented", GoalTraitRef("T1", <<>>))>>}

RECURSIVE GoalsOfDepth(_)
GoalsOfDepth(d) ==
    IF d = 0 THEN LeafGoals
    ELSE LET sub == GoalsOfDepth(d - 1)
         IN LeafGoals
              \cup {All(gs) : gs \in SeqsUpTo(AllSubgoals, MaxAll)}
              \cup {Quantified(q[1], q[2], s) : q \in QuantifierShapes, s \in sub}
              \cup {Implies(h, s) : h \in Hypotheses, s \in sub}
              \cup {Not(s) : s \in sub}

Goals == GoalsOfDepth(MaxDepth)

\* UCanonical<InEnvironment<Goal>>: universes and binders are the metadata
\* of canonicalisation, environment the clauses in scope
UCanonical(u, n, e, gl) ==
    [k |-> "UCanonical", universes |-> u,
     canonical |-> [binders |-> n, value |-> [environment |-> e, goal |-> gl]]]

UCanonicalGoals ==
    {UCanonical(m[1], m[2], m[3], gl) :
        m \in {<<1, 0, <<>>>>, <<2, 1, <<Holds("Implemented", GoalTraitRef("T2", <<>>))>>>>},
        gl \in GoalsOfDepth(MaxDepth - 1)}

----------------------------------------------------------------------------
(* coinductive_goal.rs *)

\* db.trait_datum(id).is_auto_trait(), .is_coinductive_trait()
is_auto_trait(d, id) == d[id].auto
is_coinductive_trait(d, id) == d[id].coinductive

\* mutant: a trait must be both auto and coinductive
domain_goal_is_coinductive_and(gl, d) ==
    CASE gl.dg = "Holds" ->
            (CASE gl.wc = "Implemented" ->
                    is_auto_trait(d, gl.tr.trait_id) /\ is_coinductive_trait(d, gl.tr.trait_id)
               [] gl.wc = "AliasEq" -> FALSE
               [] gl.wc = "LifetimeOutlives" -> FALSE
               [] gl.wc = "TypeOutlives" -> FALSE)
      [] gl.dg = "WellFormed" /\ gl.wf = "Trait" -> TRUE
      [] OTHER -> FALSE

\* mutant: well-formedness of a trait reference asks the trait's flags
domain_goal_is_coinductive_wf_by_flags(gl, d) ==
    CASE gl.dg = "Holds" ->
            (CASE gl.wc = "Implemented" ->
                    is_auto_trait(d, gl.tr.trait_id) \/ is_coinductive_trait(d, gl.tr.trait_id)
               [] gl.wc = "AliasEq" -> FALSE
               [] gl.wc = "LifetimeOutlives" -> FALSE
               [] gl.wc = "TypeOutlives" -> FALSE)
      [] gl.dg = "WellFormed" /\ gl.wf = "Trait" ->
            is_auto_trait(d, gl.tr.trait_id) \/ is_coinductive_trait(d, gl.tr.trait_id)
      [] OTHER -> FALSE

\* the arms of GoalData::DomainGoal
domain_goal_is_coinductive(gl, d) ==
    CASE gl.dg = "Holds" ->
            (CASE gl.wc = "Implemented" ->
                    is_auto_trait(d, gl.tr.trait_id) \/ is_coinductive_trait(d, gl.tr.trait_id)
               [] gl.wc = "AliasEq" -> FALSE
               [] gl.wc = "LifetimeOutlives" -> FALSE
               [] gl.wc = "TypeOutlives" -> FALSE)
      [] gl.dg = "WellFormed" /\ gl.wf = "Trait" -> TRUE
      [] OTHER -> FALSE

RECURSIVE is_coinductive(_, _)

\* mutant: a quantified goal is coinductive whatever its body is
is_coinductive_quantified_always(gl, d) ==
    CASE gl.g = "DomainGoal" -> domain_goal_is_coinductive(gl, d)
      [] gl.g = "Quantified" -> TRUE
      [] gl.g = "Implies" -> is_coinductive(gl.goal, d)
      [] gl.g = "All" -> TRUE
      [] gl.g = "Not" -> FALSE
      [] gl.g = "EqGoal" -> FALSE
      [] gl.g = "CannotProve" -> FALSE
      [] gl.g = "SubtypeGoal" -> FALSE

\* mutant: an All goal is coinductive when each of its subgoals is
is_coinductive_all_of_subgoals(gl, d) ==
    CASE gl.g = "DomainGoal" -> domain_goal_is_coinductive(gl, d)
      [] gl.g = "Quantified" -> is_coinductive(gl.body, d)
      [] gl.g = "Implies" -> is_coinductive(gl.goal, d)
      [] gl.g = "All" -> \A i \in 1 .. Len(gl.goals) : is_coinductive(gl.goals[i], d)
      [] gl.g = "Not" -> FALSE
      [] gl.g = "EqGoal" -> FALSE
      [] gl.g = "CannotProve" -> FALSE
      [] gl.g = "SubtypeGoal" -> FALSE

\* mutant: a negation inherits the classification of the goal it negates
is_coinductive_not_inherits(gl, d) ==
    CASE gl.g = "DomainGoal" -> domain_goal_is_coinductive(gl, d)
      [] gl.g = "Quantified" -> is_coinductive(gl.body, d)
      [] gl.g = "Implies" -> is_coinductive(gl.goal, d)
      [] gl.g = "All" -> TRUE
      [] gl.g = "Not" -> is_coinductive(gl.goal, d)
      [] gl.g = "EqGoal" -> FALSE
      [] gl.g = "CannotProve" -> FALSE
      [] gl.g = "SubtypeGoal" -> FALSE

is_coinductive(gl, d) ==
    CASE gl.g = "DomainGoal" -> domain_goal_is_coinductive(gl, d)
      [] gl.g = "Quantified" -> is_coinductive(gl.body, d)
      [] gl.g = "Implies" -> is_coinductive(gl.goal, d)
      [] gl.g = "All" -> TRUE
      [] gl.g = "Not" -> FALSE
      [] gl.g = "EqGoal" -> FALSE
      [] gl.g = "CannotProve" -> FALSE
      [] gl.g = "SubtypeGoal" -> FALSE

is_coinductive_ucanonical(u, d) == is_coinductive(u.canonical.value.goal, d)

\* the database's program changes the flags of a trait
SetTraitFlags ==
    /\ cpc = "idle"
    /\ \E t \in TraitIds, f \in TraitFlags : db' = [db EXCEPT ![t] = f]
    /\ UNCHANGED <<cpc, goal, coind>>
    /\ UNCHANGED notCoindVars

\* goal.is_coinductive(db)
ClassifyGoal ==
    /\ cpc = "idle"
    /\ \E gl \in Goals :
          /\ goal' = gl
          /\ coind' = is_coinductive(gl, db)
    /\ cpc' = "done"
    /\ UNCHANGED db
    /\ UNCHANGED notCoindVars

\* ucanonical_goal.is_coinductive(db)
ClassifyUCanonical ==
    /\ cpc = "idle"
    /\ \E u \in UCanonicalGoals :
          /\ goal' = u
          /\ coind' = is_coinductive_ucanonical(u, db)
    /\ cpc' = "done"
    /\ UNCHANGED db
    /\ UNCHANGED notCoindVars

Forget ==
    /\ cpc = "done"
    /\ cpc' = "idle"
    /\ goal' = None
    /\ coind' = FALSE
    /\ UNCHANGED db
    /\ UNCHANGED notCoindVars

NextCoinductive ==
    \/ SetTraitFlags
    \/ ClassifyGoal
    \/ ClassifyUCanonical
    \/ Forget

SpecCoinductive == Init /\ [][NextCoinductive]_vars

----------------------------------------------------------------------------
(* Properties of coinductive_goal.rs.                                       *)

Classified == cpc = "done" /\ ("g" \in DOMAIN goal)

IsImplemented(gl) == gl.g = "DomainGoal" /\ gl.dg = "Holds" /\ gl.wc = "Implemented"

IsWellFormedTrait(gl) == gl.g = "DomainGoal" /\ gl.dg = "WellFormed" /\ gl.wf = "Trait"

\* C9: a goal that a trait is implemented is coinductive exactly when the
\* database reports its trait as auto or as coinductive; neither the flags
\* of another trait nor the parameters of the trait reference matter.
C9_ImplementedByFlags ==
    (Classified /\ IsImplemented(goal)) =>
        (coind <=> (db[goal.tr.trait_id].auto \/ db[goal.tr.trait_id].coinductive))

\* T1 is neither auto nor coinductive and T2 is auto: T1's goal, with a
\* parameter, is inductive
C9_Witness ==
    /\ Classified
    /\ IsImplemented(goal)
    /\ goal.tr.trait_id = "T1"
    /\ goal.tr.parameters # <<>>
    /\ db["T2"].auto
    /\ ~db["T1"].auto
    /\ ~db["T1"].coinductive
    /\ ~coind

\* a trait marked coinductive and not auto: its goal is coinductive
C9_WitnessCoinductive ==
    /\ Classified
    /\ IsImplemented(goal)
    /\ ~db[goal.tr.trait_id].auto
    /\ db[goal.tr.trait_id].coinductive
    /\ coind

\* C10: well-formedness of a trait reference is coinductive whatever the
\* database says of the trait.
C10_WellFormedTrait ==
    (Classified /\ IsWellFormedTrait(goal)) => coind

\* the trait is neither auto nor coinductive
C10_Witness ==
    /\ Classified
    /\ IsWellFormedTrait(goal)
    /\ ~db[goal.tr.trait_id].auto
    /\ ~db[goal.tr.trait_id].coinductive
    /\ coind

IsWrapper(gl) == gl.g \in {"Quantified", "Implies"}

\* the goal inside a quantifier or an implication
Wrapped(gl) == IF gl.g = "Quantified" THEN gl.body ELSE gl.goal

\* the goal left when every quantifier and implication around it is taken off
RECURSIVE Innermost(_)
Innermost(gl) == IF IsWrapper(gl) THEN Innermost(Wrapped(gl)) ELSE gl

\* the number of quantifiers and implications around the innermost goal
RECURSIVE WrapperDepth(_)
WrapperDepth(gl) == IF IsWrapper(gl) THEN 1 + WrapperDepth(Wrapped(gl)) ELSE 0

\* C11: a quantifier of any kind and binders, an implication with any
\* hypotheses, and a canonical goal-in-environment with any environment and
\* metadata, nested to any depth, are classified as the goal inside them is.
C11_WrapperTransparency ==
    /\ (Classified /\ IsWrapper(goal)) =>
          /\ coind = is_coinductive(Wrapped(goal), db)
          /\ coind = is_coinductive(Innermost(goal), db)
    /\ (cpc = "done" /\ "canonical" \in DOMAIN goal) =>
          /\ coind = is_coinductive(goal.canonical.value.goal, db)
          /\ coind = is_coinductive(Innermost(goal.canonical.value.goal), db)

\* an inductive goal under a quantifier under an implication with a hypothesis
C11_Witness ==
    /\ Classified
    /\ goal.g = "Implies"
    /\ goal.hypotheses # <<>>
    /\ goal.goal.g = "Quantified"
    /\ WrapperDepth(goal) = 2
    /\ Innermost(goal).g = "EqGoal"
    /\ ~coind

\* a coinductive goal under a quantifier inside a canonical goal
C11_WitnessCanonical ==
    /\ cpc = "done"
    /\ "canonical" \in DOMAIN goal
    /\ goal.canonical.value.environment # <<>>
    /\ goal.canonical.value.goal.g = "Quantified"
    /\ coind

\* C12: an All goal is coinductive whatever its subgoals are: one inductive
\* and one coinductive, inductive ones only, or none.
C12_AllIsCoinductive ==
    (Classified /\ goal.g = "All") => coind

\* one coinductive and one inductive subgoal
C12_Witness ==
    /\ Classified
    /\ goal.g = "All"
    /\ Len(goal.goals) = 2
    /\ is_coinductive(goal.goals[1], db)
    /\ ~is_coinductive(goal.goals[2], db)
    /\ coind

\* no subgoals
C12_WitnessEmpty ==
    /\ Classified
    /\ goal.g = "All"
    /\ goal.goals = <<>>
    /\ coind

IsInductiveShape(gl) ==
    \/ gl.g \in {"Not", "EqGoal", "CannotProve", "SubtypeGoal"}
    \/ gl.g = "DomainGoal" /\ ~IsImplemented(gl) /\ ~IsWellFormedTrait(gl)

\* C13: a negation, a term equality, CannotProve, a subtype goal, and a
\* domain goal other than "trait is implemented" and well-formedness of a
\* trait reference are inductive whatever the database says; so is the
\* negation of a coinductive goal.
C13_InductiveShapes ==
    (Classified /\ IsInductiveShape(goal)) => ~coind

\* the negation of a coinductive goal
C13_Witness ==
    /\ Classified
    /\ goal.g = "Not"
    /\ is_coinductive(goal.goal, db)
    /\ ~coind

\* well-formedness of a type, its trait flagged auto
C13_WitnessDomainGoal ==
    /\ Classified
    /\ goal.g = "DomainGoal"
    /\ goal.dg = "WellFormed"
    /\ goal.wf = "Ty"
    /\ db[goal.tr.trait_id].auto
    /\ ~coind

----------------------------------------------------------------------------
(* The default interner, ChalkIr: "no interning actually occurs".  A type   *)
(* and a goal are interned into a new Arc, a heap cell of arcs that the     *)
(* handle [arc |-> i] points to; a lifetime and a parameter are their own   *)
(* handles; goals and substitutions are collected into a Vec.               *)

TyDatas == {[k |-> "TyData", id |-> n] : n \in Names}
LifetimeDatas == {[k |-> "LifetimeData", id |-> n] : n \in Names}
GoalDatas == {EqGoal, CannotProve}

\* ParameterData: a type handle or a lifetime handle
ParameterData(tag, h) == [k |-> "ParameterData", tag |-> tag, val |-> h]

HandlesOf(kept, kind) == {kept[i].handle : i \in {j \in 1 .. Len(kept) : kept[j].kind = kind}}

ParameterDatas(kept) ==
    {ParameterData("Lifetime", l) : l \in LifetimeDatas}
        \cup {ParameterData("Ty", h) : h \in HandlesOf(kept, "ty")}

\* the E of intern_substitution<E>
Errors == {"E1", "E2"}

\* Result<Parameter, E>: Ok(parameter) or Err(e)
ResultItems(kept) ==
    {[res |-> "Ok", val |-> p] : p \in ParameterDatas(kept)}
        \cup {[res |-> "Err", err |-> e] : e \in Errors}

\* Arc::new(v): a new cell after those allocated, and the handle to it
ArcNew(heap, v) == [arcs |-> Append(heap, v), handle |-> [arc |-> Len(heap) + 1]]

\* &*arc
ArcDeref(heap, h) == heap[h.arc]

\* data.into_iter().collect::<Vec<_>>(): the items pushed one by one
RECURSIVE Collect(_, _, _)
Collect(items, i, acc) ==
    IF i > Len(items) THEN acc ELSE Collect(items, i + 1, Append(acc, items[i]))

\* mutant: the first of the errors is passed over for the last of them
RECURSIVE CollectResultLastErr(_, _, _)
CollectResultLastErr(items, i, acc) ==
    IF i > Len(items) THEN acc
    ELSE IF items[i].res = "Err"
    THEN CollectResultLastErr(items, i + 1, [res |-> "Err", err |-> items[i].err])
    ELSE IF acc.res = "Err"
    THEN CollectResultLastErr(items, i + 1, acc)
    ELSE CollectResultLastErr(items, i + 1,
                              [res |-> "Ok", handle |-> Append(acc.handle, items[i].val)])

\* data.into_iter().collect::<Result<Vec<_>, E>>(): the Ok values pushed one
\* by one until an item is an Err, which is then the result
RECURSIVE CollectResult(_, _, _)
CollectResult(items, i, acc) ==
    IF i > Len(items) THEN acc
    ELSE IF items[i].res = "Err"
    THEN [res |-> "Err", err |-> items[i].err]
    ELSE CollectResult(items, i + 1,
                       [res |-> "Ok", handle |-> Append(acc.handle, items[i].val)])

intern_ty(heap, ty) == ArcNew(heap, ty)
ty_data(heap, h) == ArcDeref(heap, h)

intern_lifetime(lifetime) == lifetime
lifetime_data(h) == h

intern_parameter(parameter) == parameter
parameter_data(h) == h

\* mutant: the goal is stored in the cell of the first Arc allocated
intern_goal_reuses_cell(heap, gd) ==
    IF heap = <<>> THEN ArcNew(heap, gd)
    ELSE [arcs |-> Append([heap EXCEPT ![1] = gd], gd), handle |-> [arc |-> 1]]

intern_goal(heap, gd) == ArcNew(heap, gd)
goal_data(heap, h) == ArcDeref(heap, h)

intern_goals(data) == Collect(data, 1, <<>>)
goals_data(h) == h

intern_substitution(data) == CollectResult(data, 1, [res |-> "Ok", handle |-> <<>>])
substitution_data(h) == h

\* an intern_* call: its kind, its argument, what it returned
Interned(kind, data, handle) ==
    /\ ipc' = "interned"
    /\ iop' = kind
    /\ iin' = data
    /\ ih' = handle
    /\ idata' = None
    /\ UNCHANGED notInternVars

\* a *_data call on the handle ih
Read(data) ==
    /\ ipc' = "read"
    /\ idata' = data
    /\ UNCHANGED <<arcs, held, iop, iin, ih>>
    /\ UNCHANGED notInternVars

InternTy ==
    /\ ipc = "idle"
    /\ Len(held) < MaxHeld
    /\ \E d \in TyDatas :
          LET r == intern_ty(arcs, d)
          IN /\ arcs' = r.arcs
             /\ held' = Append(held, [kind |-> "ty", handle |-> r.handle, data |-> d])
             /\ Interned("ty", d, r.handle)

InternLifetime ==
    /\ ipc = "idle"
    /\ \E d \in LifetimeDatas : Interned("lifetime", d, intern_lifetime(d))
    /\ UNCHANGED <<arcs, held>>

InternParameter ==
    /\ ipc = "idle"
    /\ \E d \in ParameterDatas(held) : Interned("parameter", d, intern_parameter(d))
    /\ UNCHANGED <<arcs, held>>

InternGoal ==
    /\ ipc = "idle"
    /\ Len(held) < MaxHeld
    /\ \E d \in GoalDatas :
          LET r == intern_goal(arcs, d)
          IN /\ arcs' = r.arcs
             /\ held' = Append(held, [kind |-> "goal", handle |-> r.handle, data |-> d])
             /\ Interned("goal", d, r.handle)

InternGoals ==
    /\ ipc = "idle"
    /\ \E d \in SeqsUpTo(HandlesOf(held, "goal"), MaxGoals) :
          Interned("goals", d, intern_goals(d))
    /\ UNCHANGED <<arcs, held>>

InternSubstitution ==
    /\ ipc = "idle"
    /\ \E d \in SeqsUpTo(ResultItems(held), MaxItems) :
          Interned("substitution", d, intern_substitution(d))
    /\ UNCHANGED <<arcs, held>>

\* ty_data of a handle the caller keeps, whenever it was interned
TyData ==
    /\ ipc = "idle"
    /\ \E i \in 1 .. Len(held) :
          /\ held[i].kind = "ty"
          /\ iop' = "ty"
          /\ iin' = held[i].data
          /\ ih' = held[i].handle
          /\ idata' = ty_data(arcs, held[i].handle)
    /\ ipc' = "read"
    /\ UNCHANGED <<arcs, held>>
    /\ UNCHANGED notInternVars

LifetimeData ==
    /\ ipc = "interned"
    /\ iop = "lifetime"
    /\ Read(lifetime_data(ih))

ParameterDataOf ==
    /\ ipc = "interned"
    /\ iop = "parameter"
    /\ Read(parameter_data(ih))

\* goal_data of a handle the caller keeps, whenever it was interned
GoalData ==
    /\ ipc = "idle"
    /\ \E i \in 1 .. Len(held) :
          /\ held[i].kind = "goal"
          /\ iop' = "goal"
          /\ iin' = held[i].data
          /\ ih' = held[i].handle
          /\ idata' = goal_data(arcs, held[i].handle)
    /\ ipc' = "read"
    /\ UNCHANGED <<arcs, held>>
    /\ UNCHANGED notInternVars

GoalsData ==
    /\ ipc = "interned"
    /\ iop = "goals"
    /\ Read(goals_data(ih))

SubstitutionData ==
    /\ ipc = "interned"
    /\ iop = "substitution"
    /\ ih.res = "Ok"
    /\ Read(substitution_data(ih.handle))

\* the caller goes on; the Arc handles it keeps stay in held
Proceed ==
    /\ ipc \in {"interned", "read"}
    /\ ipc' = "idle"
    /\ iop' = "none"
    /\ iin' = None
    /\ ih' = None
    /\ idata' = None
    /\ UNCHANGED <<arcs, held>>
    /\ UNCHANGED notInternVars

NextInterner ==
    \/ InternTy
    \/ InternLifetime
    \/ InternParameter
    \/ InternGoal
    \/ InternGoals
    \/ InternSubstitution
    \/ TyData
    \/ LifetimeData
    \/ ParameterDataOf
    \/ GoalData
    \/ GoalsData
    \/ SubstitutionData
    \/ Proceed

SpecInterner == Init /\ [][NextInterner]_vars

----------------------------------------------------------------------------
(* Properties of the interner.                                              *)

\* a *_data call has returned
WasRead(kind) == ipc = "read" /\ iop = kind

\* the data behind every Arc handle the caller keeps is the data interned
HeldDataKept ==
    \A i \in 1 .. Len(held) :
        /\ held[i].kind = "ty" => ty_data(arcs, held[i].handle) = held[i].data
        /\ held[i].kind = "goal" => goal_data(arcs, held[i].handle) = held[i].data

\* C14: for every leaf kind of the default interner (type, lifetime,
\* parameter, goal, goal sequence) the data read back through a handle is the
\* data that was interned, a goal sequence having the same elements in the
\* same order, and this stays so after any other intern operations.
C14_InterningRoundTrip ==
    /\ HeldDataKept
    /\ \A kind \in {"ty", "lifetime", "parameter", "goal"} :
          WasRead(kind) => idata = iin
    /\ WasRead("goals") =>
          /\ Len(idata) = Len(iin)
          /\ \A j \in 1 .. Len(iin) :
                /\ idata[j] = iin[j]
                /\ goal_data(arcs, idata[j]) = goal_data(arcs, iin[j])

\* a type is read back after a goal was interned later than it
C14_Witness ==
    /\ WasRead("ty")
    /\ Len(held) = 2
    /\ ih = held[1].handle
    /\ held[2].kind = "goal"
    /\ idata = held[1].data

\* a sequence of two goals with different data is read back
C14_WitnessGoals ==
    /\ WasRead("goals")
    /\ Len(iin) = 2
    /\ goal_data(arcs, iin[1]) # goal_data(arcs, iin[2])
    /\ idata = iin

\* intern_substitution has returned (and substitution_data may have, too)
SubstitutionInterned == ipc \in {"interned", "read"} /\ iop = "substitution"

\* the places of the items that are errors
ErrPlaces(items) == {i \in 1 .. Len(items) : items[i].res = "Err"}

\* the place of the first of them
FirstErrPlace(items) ==
    CHOOSE i \in ErrPlaces(items) : \A j \in ErrPlaces(items) : i <= j

\* the parameters of items that are all Ok, in their order
OkParameters(items) == [i \in 1 .. Len(items) |-> items[i].val]

\* C15: intern_substitution over items that are each Ok(parameter) or Err(e)
\* returns Err(e), e the first error in iteration order, and no handle, when
\* any item is an error; when all are Ok it returns a handle whose
\* substitution_data is exactly the Ok parameters in their original order.
C15_SubstitutionFirstError ==
    SubstitutionInterned =>
        IF ErrPlaces(iin) # {}
        THEN /\ ih = [res |-> "Err", err |-> iin[FirstErrPlace(iin)].err]
             /\ "handle" \notin DOMAIN ih
             /\ ipc # "read"
        ELSE /\ ih.res = "Ok"
             /\ substitution_data(ih.handle) = OkParameters(iin)
             /\ ipc = "read" => idata = OkParameters(iin)

\* two items are different errors, and the first of them is returned
C15_Witness ==
    /\ SubstitutionInterned
    /\ Len(iin) = 2
    /\ ErrPlaces(iin) = {1, 2}
    /\ iin[1].err # iin[2].err
    /\ ih = [res |-> "Err", err |-> iin[1].err]

\* two different parameters are interned and read back in their order
C15_WitnessAllOk ==
    /\ WasRead("substitution")
    /\ Len(iin) = 2
    /\ ErrPlaces(iin) = {}
    /\ iin[1].val # iin[2].val
    /\ idata = <<iin[1].val, iin[2].val>>

----------------------------------------------------------------------------
(* The debug hooks of ChalkIr.  Each asks thread-local storage for the      *)
(* current program and has it write the value into the formatter.           *)

\* the programs that can be the current one
Programs == {"P1", "P2"}

Some(x) == [k |-> "Some", val |-> x]

\* a write into the formatter: fmt::Result, and the text when it is taken
Write(takes, text) ==
    [result |-> IF takes THEN "Ok" ELSE "Err",
     written |-> IF takes THEN <<text>> ELSE <<>>]

\* prog.debug_*(value, fmt): the program writes its name for the value
ProgramDebug(prog, hook, val, takes) ==
    Write(takes, [by |-> prog, hook |-> hook, val |-> val])

\* write!(fmt, "{:?}", value): the derived Debug text of the value
WriteDebug(val, takes) == Write(takes, [by |-> "Debug", val |-> val])

\* tls::with_current_program(|prog| Some(prog?.debug_*(value, fmt))):
\* the closure gets the current program if one is set and none otherwise,
\* and prog? makes it return None then
with_current_program(prog, hook, val, takes) ==
    IF prog = "none"
    THEN [out |-> None, written |-> <<>>]
    ELSE LET r == ProgramDebug(prog, hook, val, takes)
         IN [out |-> Some(r.result), written |-> r.written]

\* .or_else(|| Some(write!(fmt, "{:?}", lifetime.interned)))
debug_lifetime(prog, val, takes) ==
    LET first == with_current_program(prog, "lifetime", val, takes)
    IN IF first.out = None
       THEN LET r == WriteDebug(val, takes)
            IN [out |-> Some(r.result), written |-> r.written]
       ELSE first

\* tls::set_current_program: the program is current while the closure runs
SetCurrentProgram ==
    /\ dpc = "idle"
    /\ program = "none"
    /\ \E p \in Programs : program' = p
    /\ UNCHANGED <<dpc, dhook, dval, sinkOk, sink, dout>>
    /\ UNCHANGED notDebugVars

\* the closure of set_current_program has returned
UnsetCurrentProgram ==
    /\ dpc = "idle"
    /\ program # "none"
    /\ program' = "none"
    /\ UNCHANGED <<dpc, dhook, dval, sinkOk, sink, dout>>
    /\ UNCHANGED notDebugVars

\* a hook called with a value and a new formatter, and what it did
Called(hook, val, takes, r) ==
    /\ dpc' = "done"
    /\ dhook' = hook
    /\ dval' = val
    /\ sinkOk' = takes
    /\ sink' = r.written
    /\ dout' = r.out
    /\ UNCHANGED program
    /\ UNCHANGED notDebugVars

DebugStructId ==
    /\ dpc = "idle"
    /\ \E val \in Names, takes \in BOOLEAN :
          Called("struct_id", val, takes, with_current_program(program, "struct_id", val, takes))

DebugTraitId ==
    /\ dpc = "idle"
    /\ \E val \in Names, takes \in BOOLEAN :
          Called("trait_id", val, takes, with_current_program(program, "trait_id", val, takes))

DebugAssocTypeId ==
    /\ dpc = "idle"
    /\ \E val \in Names, takes \in BOOLEAN :
          Called("assoc_type_id", val, takes, with_current_program(program, "assoc_type_id", val, takes))

DebugAlias ==
    /\ dpc = "idle"
    /\ \E val \in Names, takes \in BOOLEAN :
          Called("alias", val, takes, with_current_program(program, "alias", val, takes))

DebugTy ==
    /\ dpc = "idle"
    /\ \E val \in Names, takes \in BOOLEAN :
          Called("ty", val, takes, with_current_program(program, "ty", val, takes))

DebugLifetime ==
    /\ dpc = "idle"
    /\ \E val \in Names, takes \in BOOLEAN :
          Called("lifetime", val, takes, debug_lifetime(program, val, takes))

DebugParameter ==
    /\ dpc = "idle"
    /\ \E val \in Names, takes \in BOOLEAN :
          Called("parameter", val, takes, with_current_program(program, "parameter", val, takes))

DebugGoal ==
    /\ dpc = "idle"
    /\ \E val \in Names, takes \in BOOLEAN :
          Called("goal", val, takes, with_current_program(program, "goal", val, takes))

DebugGoals ==
    /\ dpc = "idle"
    /\ \E val \in Names, takes \in BOOLEAN :
          Called("goals", val, takes, with_current_program(program, "goals", val, takes))

DebugProgramClauseImplication ==
    /\ dpc = "idle"
    /\ \E val \in Names, takes \in BOOLEAN :
          Called("program_clause_implication", val, takes,
                 with_current_program(program, "program_clause_implication", val, takes))

DebugApplicationTy ==
    /\ dpc = "idle"
    /\ \E val \in Names, takes \in BOOLEAN :
          Called("application_ty", val, takes, with_current_program(program, "application_ty", val, takes))

DebugSubstitution ==
    /\ dpc = "idle"
    /\ \E val \in Names, takes \in BOOLEAN :
          Called("substitution", val, takes, with_current_program(program, "substitution", val, takes))

DebugSeparatorTraitRef ==
    /\ dpc = "idle"
    /\ \E val \in Names, takes \in BOOLEAN :
          Called("separator_trait_ref", val, takes,
                 with_current_program(program, "separator_trait_ref", val, takes))

\* the caller has looked at what the hook returned
Formatted ==
    /\ dpc = "done"
    /\ dpc' = "idle"
    /\ dhook' = "none"
    /\ dval' = None
    /\ sinkOk' = TRUE
    /\ sink' = <<>>
    /\ dout' = None
    /\ UNCHANGED program
    /\ UNCHANGED notDebugVars

NextDebug ==
    \/ SetCurrentProgram
    \/ UnsetCurrentProgram
    \/ DebugStructId
    \/ DebugTraitId
    \/ DebugAssocTypeId
    \/ DebugAlias
    \/ DebugTy
    \/ DebugLifetime
    \/ DebugParameter
    \/ DebugGoal
    \/ DebugGoals
    \/ DebugProgramClauseImplication
    \/ DebugApplicationTy
    \/ DebugSubstitution
    \/ DebugSeparatorTraitRef
    \/ Formatted

SpecDebug == Init /\ [][NextDebug]_vars

----------------------------------------------------------------------------
(* Properties of the debug hooks.                                           *)

\* what the hook last called is to return by the trait's documentation:
\* None without a current program, and otherwise Some of the outcome of the
\* program's writing into the formatter
DocumentedOutcome ==
    IF program = "none"
    THEN None
    ELSE Some(ProgramDebug(program, dhook, dval, sinkOk).result)

\* C16: every formatting hook of the default interner returns None when no
\* current program is available and Some(the outcome of the program writing
\* into the formatter) when one is.  (This is the claim as stated; it does
\* not hold of debug_lifetime.)
C16_HooksNoneWithoutProgram ==
    dpc = "done" => dout = DocumentedOutcome

\* C16, for the hooks other than debug_lifetime
C16_HooksButLifetime ==
    (dpc = "done" /\ dhook # "lifetime") =>
        /\ dout = DocumentedOutcome
        /\ program = "none" => sink = <<>>

\* debug_lifetime without a current program: the derived Debug text is
\* written and Some is returned
C16_LifetimeFallsBack ==
    /\ dpc = "done"
    /\ dhook = "lifetime"
    /\ program = "none"
    /\ dout = Some("Ok")
    /\ sink = <<[by |-> "Debug", val |-> dval]>>

====
